---- MODULE Spec2Model ----
(***************************************************************************)
(* Model of scripts/migrate-frontmatter.py: the frontmatter parser (both   *)
(* the PyYAML branch and the line-oriented fallback), the header builder,  *)
(* the related-skills extractor and splice, the two per-document           *)
(* migrations and the main loop with its tallies and exit status.          *)
(*                                                                         *)
(* File contents, header text and messages are TLA+ strings, handled       *)
(* character by character exactly as the Python string methods do.         *)
(***************************************************************************)
EXTENDS Integers, Sequences, FiniteSets, TLC

----------------------------------------------------------------------------
(* Python str primitives                                                   *)

\* s[i-1:j] of Python (1-based, inclusive, clamped to the string).
Sub(s, i, j) ==
    LET lo == IF i < 1 THEN 1 ELSE i
        hi == IF j > Len(s) THEN Len(s) ELSE j
    IN  IF lo > hi THEN "" ELSE SubSeq(s, lo, hi)

CharAt(s, i) == Sub(s, i, i)

\* s.startswith(p, i-1)
StartsWithAt(s, p, i) == i >= 1 /\ i + Len(p) - 1 <= Len(s) /\ SubSeq(s, i, i + Len(p) - 1) = p

StartsWith(s, p) == StartsWithAt(s, p, 1)

\* s.find(p, from-1) + 1 : least index >= from where p occurs, 0 when none.
Min(S) == CHOOSE i \in S : \A j \in S : i <= j

Max(S) == CHOOSE i \in S : \A j \in S : i >= j

Find(s, p, from) ==
    LET lo    == IF from < 1 THEN 1 ELSE from
        hi    == Len(s) - Len(p) + 1
        at(i) == SubSeq(s, i, i + Len(p) - 1) = p
    IN  IF \E i \in lo..hi : at(i)
        THEN CHOOSE i \in lo..hi : at(i) /\ \A j \in lo..(i - 1) : ~at(j)
        ELSE 0

\* p in s
Contains(s, p) == Find(s, p, 1) # 0

\* s.split(sep, maxsplit); maxsplit < 0 means no limit.
RECURSIVE SplitFrom(_, _, _, _)
SplitFrom(s, sep, from, maxsplit) ==
    LET i == IF maxsplit = 0 THEN 0 ELSE Find(s, sep, from)
    IN  IF i = 0 THEN << Sub(s, from, Len(s)) >>
        ELSE << Sub(s, from, i - 1) >> \o SplitFrom(s, sep, i + Len(sep), maxsplit - 1)

Split(s, sep) == SplitFrom(s, sep, 1, -1)

SplitMax(s, sep, maxsplit) == SplitFrom(s, sep, 1, maxsplit)

\* sep.join(parts)
RECURSIVE Join(_, _)
Join(parts, sep) ==
    IF Len(parts) = 0 THEN ""
    ELSE IF Len(parts) = 1 THEN parts[1]
    ELSE parts[1] \o sep \o Join(Tail(parts), sep)

\* The whitespace characters str.strip() removes and \s matches (those that
\* can be written here).
Whitespace == {" ", "\n", "\t", "\r", "\f"}

\* Index of the first character of s at or after i that is not in chars
\* (Len(s)+1 when there is none).
SkipFwd(s, chars, i) ==
    IF i > Len(s) THEN i
    ELSE CHOOSE k \in i..(Len(s) + 1) :
             /\ k <= Len(s) => SubSeq(s, k, k) \notin chars
             /\ \A j \in i..(k - 1) : SubSeq(s, j, j) \in chars

\* Index of the last character of s at or before i that is not in chars
\* (0 when there is none).
SkipBwd(s, chars, i) ==
    IF i < 1 THEN 0
    ELSE CHOOSE k \in 0..i :
             /\ k >= 1 => SubSeq(s, k, k) \notin chars
             /\ \A j \in (k + 1)..i : SubSeq(s, j, j) \in chars

\* s.lstrip(chars)
LStripChars(s, chars) == Sub(s, SkipFwd(s, chars, 1), Len(s))

\* s.strip()
Strip(s) == Sub(s, SkipFwd(s, Whitespace, 1), SkipBwd(s, Whitespace, Len(s)))

\* s.partition(sep) as <<head, tail>> (the separator itself is not used).
Partition(s, sep) ==
    LET i == Find(s, sep, 1)
    IN  IF i = 0 THEN << s, "" >>
        ELSE << Sub(s, 1, i - 1), Sub(s, i + Len(sep), Len(s)) >>

\* s with every character c replaced by f[c] when c is in DOMAIN f.
RECURSIVE MapChars(_, _)
MapChars(s, f) ==
    IF Len(s) = 0 THEN ""
    ELSE IF Len(s) = 1 THEN (IF s \in DOMAIN f THEN f[s] ELSE s)
    ELSE LET h == Len(s) \div 2
         IN  MapChars(SubSeq(s, 1, h), f) \o MapChars(SubSeq(s, h + 1, Len(s)), f)

\* s.replace(" ", "-")
ReplaceSpaces(s) == MapChars(s, [c \in {" "} |-> "-"])

Upper == "ABCDEFGHIJKLMNOPQRSTUVWXYZ"

LowerLetters == "abcdefghijklmnopqrstuvwxyz"

\* s.lower()
Lower(s) ==
    MapChars(s, [c \in {SubSeq(Upper, i, i) : i \in 1..Len(Upper)} |->
                    SubSeq(LowerLetters, Find(Upper, c, 1), Find(Upper, c, 1))])

----------------------------------------------------------------------------
(* Python values held in the frontmatter dict                              *)

\* A scalar: a str, an int (s is its str()), a bool (s is "True"/"False") or
\* None.
Scalar(kind, s) == [kind |-> kind, s |-> s]

StrVal(s) == [kind |-> "str", s |-> s, items |-> <<>>]

NoneVal == [kind |-> "none", s |-> "None", items |-> <<>>]

\* A list of scalars.
ListVal(items) == [kind |-> "list", s |-> "", items |-> items]

\* A nested dict; items are its keys in order (the program only ever tests
\* membership of a key in it).
DictVal(keys) == [kind |-> "dict", s |-> "", items |-> keys]

OfScalar(sc) == [kind |-> sc.kind, s |-> sc.s, items |-> <<>>]

EmptyDict == [k \in {} |-> NoneVal]

\* d[k] = v
DictSet(d, k, v) == [x \in (DOMAIN d) \cup {k} |-> IF x = k THEN v ELSE d[x]]

----------------------------------------------------------------------------
(* parse_frontmatter                                                       *)

\* Lines 130-158: the line-oriented parser used when PyYAML is missing.
\* st.key = "" stands for current_key being falsy (None or ""), st.open for
\* current_list is not None.
\* Lines 144-145 and 157-158: the list being collected is stored under its
\* key.
FallbackFlush(st) ==
    IF st.key # "" /\ st.open THEN DictSet(st.fm, st.key, ListVal(st.list)) ELSE st.fm

\* Lines 146-155: a "key: value" line whose two sides are kv, with the dict
\* as flushed.
FallbackKeyValue(flushed, kv) ==
    IF Strip(kv[2]) = ""
    THEN [fm |-> flushed, key |-> Strip(kv[1]), open |-> TRUE, list |-> <<>>]
    ELSE [fm |-> DictSet(flushed, Strip(kv[1]), StrVal(Strip(kv[2]))),
          key |-> "", open |-> FALSE, list |-> <<>>]

FallbackLine(st, line) ==
    IF Strip(line) = "" THEN st
    ELSE IF StartsWith(line, "  - ") \/ StartsWith(line, "    - ") THEN
        IF st.key # "" /\ st.open
        THEN [st EXCEPT !.list =
                 Append(@, Scalar("str", Strip(LStripChars(Strip(line), {"-", " "}))))]
        ELSE st
    ELSE IF Contains(line, ":") /\ ~StartsWith(line, " ")
    THEN FallbackKeyValue(FallbackFlush(st), Partition(line, ":"))
    ELSE st

RECURSIVE FallbackFold(_, _, _)
FallbackFold(st, lines, i) ==
    IF i > Len(lines) THEN st
    ELSE FallbackFold(FallbackLine(st, lines[i]), lines, i + 1)

FallbackParse(yaml_str) ==
    FallbackFlush(FallbackFold([fm |-> EmptyDict, key |-> "", open |-> FALSE, list |-> <<>>],
                               Split(Strip(yaml_str), "\n"), 1))

\* The structured branch, line 128: yaml.safe_load(yaml_str).  PyYAML is a
\* library, so this is its documented behaviour on the YAML this program
\* reads and writes: a block mapping whose values are plain, single-quoted
\* or double-quoted scalars (no escapes), block sequences of such scalars,
\* or one nested block mapping; blank lines and comment lines are skipped.
\* What PyYAML rejects there raises (err): a plain scalar followed by a
\* mapping value indicator ("a: b: c", or a deeper-indented "k: v" line
\* after "a: b"), text after a closing quote, a line without a key inside a
\* mapping, a mapping line inside a sequence, a dedent below the block.
EndsWith(s, p) == Len(s) >= Len(p) /\ Sub(s, Len(s) - Len(p) + 1, Len(s)) = p

YIndent(line) == SkipFwd(line, {" "}, 1) - 1

IsItem(t) == t = "-" \/ StartsWith(t, "- ")

\* Position of the ":" that ends a simple key in t, 0 when t has none.
KeyPos(t) ==
    LET i == Find(t, ": ", 1)
    IN  IF i # 0 THEN i ELSE IF EndsWith(t, ":") THEN Len(t) ELSE 0

\* Text of a plain scalar up to a " #" comment.
CutComment(t) ==
    LET i == Find(t, " #", 1)
    IN  IF i = 0 THEN t ELSE Strip(Sub(t, 1, i - 1))

NullWords == {"", "~", "null", "Null", "NULL"}

TrueWords == {"yes", "Yes", "YES", "true", "True", "TRUE", "on", "On", "ON"}

FalseWords == {"no", "No", "NO", "false", "False", "FALSE", "off", "Off", "OFF"}

Digits == {"0", "1", "2", "3", "4", "5", "6", "7", "8", "9"}

IsDecimal(t) ==
    /\ t # ""
    /\ \A i \in 1..Len(t) : SubSeq(t, i, i) \in Digits
    /\ (Len(t) > 1 => SubSeq(t, 1, 1) # "0")

\* The implicit resolver of the safe loader, for the scalars above.
Resolve(t) ==
    IF t \in NullWords THEN Scalar("none", "None")
    ELSE IF t \in TrueWords THEN Scalar("bool", "True")
    ELSE IF t \in FalseWords THEN Scalar("bool", "False")
    ELSE IF IsDecimal(t) THEN Scalar("int", t)
    ELSE Scalar("str", t)

\* An inline node: the text after "key: " or "- ".
YBad == [err |-> TRUE, sc |-> Scalar("none", "None"), plain |-> FALSE, raw |-> ""]

\* A quoted scalar whose closing quote is at j (0: there is none).
YQuoted(rest, j) ==
    IF j = 0 THEN YBad
    ELSE IF Strip(Sub(rest, j + 1, Len(rest))) = "" THEN
        [err |-> FALSE, sc |-> Scalar("str", Sub(rest, 2, j - 1)), plain |-> FALSE, raw |-> ""]
    ELSE IF StartsWith(Strip(Sub(rest, j + 1, Len(rest))), "#") THEN
        [err |-> FALSE, sc |-> Scalar("str", Sub(rest, 2, j - 1)), plain |-> FALSE, raw |-> ""]
    ELSE YBad

\* A plain scalar t.
YPlain(t) == [err |-> KeyPos(t) # 0, sc |-> Resolve(t), plain |-> TRUE, raw |-> t]

YScalar(rest) ==
    IF CharAt(rest, 1) \in {"\"", "'"} THEN YQuoted(rest, Find(rest, CharAt(rest, 1), 2))
    ELSE IF CharAt(rest, 1) \in {"*", "%", "@", SubSeq("`'", 1, 1)} THEN YBad
    ELSE YPlain(CutComment(rest))

YErr(st) == [st EXCEPT !.err = TRUE]

\* Store v as the node being built: the value of st.key in a mapping
\* document, the document itself otherwise.
YStore(st, v) ==
    IF st.doc = "dict" THEN [st EXCEPT !.fm = DictSet(@, st.key, v)]
    ELSE [st EXCEPT !.top = v]

\* "key: value" or "key:" at the indentation of the top-level mapping.
\* The text before the ":" at p, and the text after it.
YKey(t, p) == Strip(Sub(t, 1, p - 1))

YRest(t, p) == Strip(Sub(t, p + 1, Len(t)))

\* The entry key with inline node v ("" when the line ends at the colon).
YTopEntry(st, key, rest, v) ==
    IF rest = "" THEN
        [st EXCEPT !.fm = DictSet(@, key, NoneVal), !.key = key,
                   !.pend = "open", !.list = <<>>]
    ELSE IF v.err THEN YErr(st)
    ELSE [st EXCEPT !.fm = DictSet(@, key, OfScalar(v.sc)),
                    !.key = key, !.pend = "scalar", !.plain = v.plain, !.raw = v.raw]

YTopKeyAt(st, t, p) ==
    IF p = 0 \/ st.doc # "dict" THEN YErr(st)
    ELSE YTopEntry(st, YKey(t, p), YRest(t, p), YScalar(YRest(t, p)))

YTopKey(st, t) == YTopKeyAt(st, t, KeyPos(t))

\* "- item" of the sequence being built.
\* The item with inline node v; sc is the item: a one-entry mapping (kept as
\* a dict scalar) when v is "k: v", else the scalar of v.
YItemOf(st, n, v, sc) ==
    IF v.err /\ ~v.plain THEN YErr(st)
    ELSE [YStore(st, ListVal(Append(st.list, sc)))
            EXCEPT !.pend = "seq", !.ind = n, !.list = Append(st.list, sc),
                   !.plain = v.plain /\ sc.kind # "dict", !.raw = v.raw]

YItemNode(st, n, v) ==
    YItemOf(st, n, v, IF v.plain /\ KeyPos(v.raw) # 0 THEN Scalar("dict", v.raw) ELSE v.sc)

YItem(st, n, t) == YItemNode(st, n, YScalar(Strip(Sub(t, 2, Len(t)))))

\* "k: v" or "k:" of the mapping nested under st.key.
YNestedEntry(st, n, l, rest, v) ==
    IF rest # "" /\ v.err THEN YErr(st)
    ELSE [YStore(st, DictVal(l)) EXCEPT !.pend = "map", !.ind = n, !.list = l,
                                        !.deep = (rest = ""),
                                        !.plain = (rest # "" /\ v.plain)]

YNestedAt(st, n, t, p) ==
    IF p = 0 THEN YErr(st)
    ELSE YNestedEntry(st, n, Append(st.list, Scalar("str", YKey(t, p))),
                      YRest(t, p), YScalar(YRest(t, p)))

YNested(st, n, t) == YNestedAt(st, n, t, KeyPos(t))

\* A deeper-indented line after a plain scalar continues it; after anything
\* else, or when it carries a mapping value indicator, it is an error.
YJoined(st, raw, sc) ==
    IF st.pend = "scalar" THEN [YStore(st, OfScalar(sc)) EXCEPT !.raw = raw]
    ELSE IF st.pend = "seq" THEN
        [YStore(st, ListVal([st.list EXCEPT ![Len(st.list)] = sc]))
            EXCEPT !.list = [st.list EXCEPT ![Len(st.list)] = sc], !.raw = raw]
    ELSE st

YContinueWith(st, more) ==
    IF ~st.plain \/ KeyPos(more) # 0 THEN YErr(st)
    ELSE YJoined(st, st.raw \o " " \o more, Resolve(st.raw \o " " \o more))

YContinue(st, t) == YContinueWith(st, CutComment(t))

\* A node v that is a scalar on a line of its own: the document, or the
\* value of st.key.
YBare(st, v) ==
    [YStore(st, OfScalar(v.sc)) EXCEPT !.err = v.err, !.pend = "scalar",
                                       !.plain = v.plain, !.raw = v.raw]

\* The first node of the document decides what the document is.
YFirst(st, n, t) ==
    IF IsItem(t) THEN YItem([st EXCEPT !.doc = "list", !.base = n], n, t)
    ELSE IF KeyPos(t) # 0 /\ CharAt(t, 1) \notin {"\"", "'"}
    THEN YTopKey([st EXCEPT !.doc = "dict", !.base = n], t)
    ELSE YBare([st EXCEPT !.doc = "scalar", !.base = -1], YScalar(t))

YamlLine(st, line) ==
    LET t == Strip(line)
        n == YIndent(line)
    IN  IF st.err \/ t = "" \/ StartsWith(t, "#") THEN st
        ELSE IF st.doc = "none" THEN YFirst(st, n, t)
        ELSE IF n < st.base THEN YErr(st)
        ELSE IF n = st.base THEN
            IF IsItem(t) THEN
                IF st.pend = "open" \/ (st.pend = "seq" /\ st.ind = n)
                THEN YItem(st, n, t) ELSE YErr(st)
            ELSE YTopKey(st, t)
        ELSE IF st.pend = "scalar" THEN YContinue(st, t)
        ELSE IF st.pend = "open" THEN
            IF IsItem(t) THEN YItem(st, n, t)
            ELSE IF KeyPos(t) # 0 THEN YNested([st EXCEPT !.list = <<>>], n, t)
            ELSE YBare(st, YScalar(t))
        ELSE IF n < st.ind THEN YErr(st)
        ELSE IF n > st.ind THEN
            IF st.pend = "map" /\ st.deep THEN st ELSE YContinue(st, t)
        ELSE IF st.pend = "seq" THEN
            IF IsItem(t) THEN YItem(st, n, t) ELSE YErr(st)
        ELSE IF IsItem(t) THEN YErr(st)
        ELSE YNested(st, n, t)

RECURSIVE YamlFold(_, _, _)
YamlFold(st, lines, i) ==
    IF i > Len(lines) THEN st
    ELSE YamlFold(YamlLine(st, lines[i]), lines, i + 1)

\* yaml.safe_load(yaml_str) or {}.  doc is "dict" (fm is the mapping) or, for
\* a document that is a truthy scalar or list, "other" (top is the value).
YFalsy(st) ==
    \/ st.doc = "none"
    \/ st.top.kind = "none"
    \/ (st.top.kind = "bool" /\ st.top.s = "False")
    \/ (st.top.kind = "int" /\ st.top.s = "0")

YLoaded(st) ==
    IF st.doc = "dict" \/ (~st.err /\ YFalsy(st))
    THEN [raised |-> st.err, doc |-> "dict", fm |-> st.fm, top |-> NoneVal]
    ELSE [raised |-> st.err, doc |-> "other", fm |-> EmptyDict, top |-> st.top]

StructuredParse(yaml_str) ==
    YLoaded(YamlFold([doc |-> "none", fm |-> EmptyDict, top |-> NoneVal, err |-> FALSE,
                      base |-> 0, key |-> "", pend |-> "none", plain |-> FALSE,
                      raw |-> "", ind |-> 0, list |-> <<>>, deep |-> FALSE],
                     Split(yaml_str, "\n"), 1))

\* parse_frontmatter(content).  none is "fm is None"; raised is an exception
\* of yaml.safe_load, which nothing in the program catches.
parse_frontmatter(content, has_pyyaml) ==
    LET parts == SplitMax(content, "---", 2)
        nofm  == [none |-> TRUE, raised |-> FALSE, doc |-> "dict", fm |-> EmptyDict,
                  top |-> NoneVal, body |-> content]
    IN  IF ~StartsWith(content, "---") THEN nofm
        ELSE IF Len(parts) < 3 THEN nofm
        ELSE IF has_pyyaml
        THEN [none |-> FALSE, body |-> parts[3]] @@ StructuredParse(parts[2])
        ELSE [none |-> FALSE, raised |-> FALSE, doc |-> "dict",
              fm |-> FallbackParse(parts[2]), top |-> NoneVal, body |-> parts[3]]

----------------------------------------------------------------------------
(* build_new_frontmatter                                                   *)

\* The skill-to-domain table, as <<domain, skills of that domain>>.
SKILL_DOMAIN_MAP ==
    <<
       << "language", {
          "python-pro", "typescript-pro", "javascript-pro",
          "golang-pro", "rust-engineer", "sql-pro", "cpp-pro",
          "swift-expert", "kotlin-specialist", "csharp-developer",
          "php-pro", "java-architect"} >>,
       << "backend", {
          "nestjs-expert", "django-expert", "fastapi-expert",
          "spring-boot-engineer", "laravel-specialist", "rails-expert",
          "dotnet-core-expert"} >>,
       << "frontend", {
          "react-expert", "nextjs-developer", "vue-expert",
          "vue-expert-js", "angular-architect", "react-native-expert",
          "flutter-expert"} >>,
       << "infrastructure", {
          "kubernetes-specialist", "terraform-engineer", "postgres-pro",
          "cloud-architect", "database-optimizer"} >>,
       << "api-architecture", {
          "graphql-architect", "api-designer", "websocket-engineer",
          "microservices-architect", "mcp-developer",
          "architecture-designer"} >>,
       << "quality", {
          "test-master", "playwright-expert", "code-reviewer",
          "code-documenter", "debugging-wizard"} >>,
       << "devops", {
          "devops-engineer", "monitoring-expert", "sre-engineer",
          "chaos-engineer", "cli-developer"} >>,
       << "security", {
          "secure-code-guardian", "security-reviewer",
          "fullstack-guardian"} >>,
       << "data-ml", {
          "pandas-pro", "spark-engineer", "ml-pipeline",
          "prompt-engineer", "rag-architect", "fine-tuning-expert"} >>,
       << "platform", {
          "salesforce-developer", "shopify-expert", "wordpress-pro",
          "atlassian-mcp"} >>,
       << "specialized", {
          "legacy-modernizer", "embedded-systems", "game-developer"} >>,
       << "workflow", {
          "feature-forge", "spec-miner"} >>
    >>

\* SKILL_DOMAIN_MAP.get(skill_name, "unknown")
DomainGet(skill_name) ==
    IF \E i \in DOMAIN SKILL_DOMAIN_MAP : skill_name \in SKILL_DOMAIN_MAP[i][2]
    THEN SKILL_DOMAIN_MAP[CHOOSE i \in DOMAIN SKILL_DOMAIN_MAP :
                              skill_name \in SKILL_DOMAIN_MAP[i][2]][1]
    ELSE "unknown"

Backtick == SubSeq("`'", 1, 1)

\* The literal of line 175 without its last character.
SpecialCharsNoBacktick == ":#{}[]|>&*!%@"

\* The characters of the literal on line 175.
SpecialChars == ":#{}[]|>&*!%@" \o Backtick

\* repr() of a str
Repr(s) ==
    IF Contains(s, "'") /\ ~Contains(s, "\"") THEN "\"" \o s \o "\"" ELSE "'" \o s \o "'"

RECURSIVE ReprItems(_)
ReprItems(items) ==
    IF Len(items) = 0 THEN <<>>
    ELSE << IF items[1].kind = "str" THEN Repr(items[1].s) ELSE items[1].s >>
         \o ReprItems(Tail(items))

\* What an f-string makes of a value: str(v).
PyStr(v) ==
    IF v.kind = "list" THEN "[" \o Join(ReprItems(v.items), ", ") \o "]"
    ELSE IF v.kind = "dict" THEN "{" \o Join(ReprItems(v.items), ", ") \o "}"
    ELSE v.s

RECURSIVE ItemStrings(_)
ItemStrings(items) ==
    IF Len(items) = 0 THEN <<>> ELSE << items[1].s >> \o ItemStrings(Tail(items))

\* c in desc, for one character c: substring of a str, member of a list or
\* key of a dict.
InValue(c, v) ==
    IF v.kind = "str" THEN Contains(v.s, c)
    ELSE \E i \in DOMAIN v.items : v.items[i].kind = "str" /\ v.items[i].s = c

\* any(c in desc for c in ":#{}[]|>&*!%@`")
NeedsQuote(desc) == \E i \in 1..Len(SpecialChars) : InValue(SubSeq(SpecialChars, i, i), desc)

\* build_new_frontmatter(fm, skill_name), for fm with name, description and
\* triggers.  raised: the TypeError of "c in desc" when desc is None, an int
\* or a bool, or of ", ".join(triggers) when an item is not a str.
build_new_frontmatter(fm, skill_name) ==
    LET desc     == fm["description"]
        triggers == fm["triggers"]
        has(k)   == k \in DOMAIN fm
        opt(k, prefix) == IF has(k) THEN << prefix \o PyStr(fm[k]) >> ELSE <<>>
        lines ==
            << "---", "name: " \o PyStr(fm["name"]) >>
            \o << IF NeedsQuote(desc)
                  THEN "description: \"" \o PyStr(desc) \o "\""
                  ELSE "description: " \o PyStr(desc) >>
            \o << "license: MIT" >>
            \o opt("allowed-tools", "allowed-tools: ")
            \o << "metadata:",
                  "  author: https://github.com/Jeffallan",
                  "  version: \"1.0.0\"",
                  "  domain: " \o DomainGet(skill_name) >>
            \o << "  triggers: " \o (IF triggers.kind = "list"
                                     THEN Join(ItemStrings(triggers.items), ", ")
                                     ELSE PyStr(triggers)) >>
            \o opt("role", "  role: ")
            \o opt("scope", "  scope: ")
            \o opt("output-format", "  output-format: ")
            \o << "---" >>
    IN  [raised |-> \/ desc.kind \in {"none", "int", "bool"}
                    \/ (triggers.kind = "list" /\
                        \E i \in DOMAIN triggers.items : triggers.items[i].kind # "str"),
         text |-> Join(lines, "\n")]

----------------------------------------------------------------------------
(* extract_related_skills                                                  *)

Heading == "## Related Skills"

\* Index of the last "\n" of s in i..j, 0 when there is none.
LastNewline(s, i, j) ==
    LET hits == {k \in i..j : SubSeq(s, k, k) = "\n"}
    IN  IF hits = {} THEN 0 ELSE Max(hits)

\* re.search(r"## Related Skills\s*\n(.*?)(?=\n## |\Z)", body, re.DOTALL):
\* the start of group 1 for the leftmost heading that is followed by
\* whitespace holding a newline (\s* is greedy, so the newline the pattern
\* names is the last one of that whitespace); 0 when nothing matches.
RECURSIVE SectionStart(_, _)
SectionStart(body, from) ==
    LET i  == Find(body, Heading, from)
        e  == i + Len(Heading)
        w  == SkipFwd(body, Whitespace, e)
        nl == LastNewline(body, e, w - 1)
    IN  IF i = 0 THEN 0
        ELSE IF nl # 0 THEN nl + 1
        ELSE SectionStart(body, i + 1)

\* Group 1: lazily up to the first "\n## " or the end of the text.
SectionText(body, start) ==
    LET p == Find(body, "\n## ", start)
    IN  IF p = 0 THEN Sub(body, start, Len(body)) ELSE Sub(body, start, p - 1)

\* re.findall(r"\*\*(.+?)\*\*", section): leftmost, non-overlapping, the
\* shortest run of one or more non-newline characters between two "**".
RECURSIVE FindBold(_, _)
FindBold(section, from) ==
    LET i  == Find(section, "**", from)
        j  == Find(section, "**", i + 3)
        nl == Find(section, "\n", i + 2)
    IN  IF i = 0 THEN <<>>
        ELSE IF j # 0 /\ (nl = 0 \/ nl > j)
        THEN << Sub(section, i + 2, j - 1) >> \o FindBold(section, j + 2)
        ELSE FindBold(section, i + 1)

RECURSIVE FilterDirs(_, _)
FilterDirs(display_names, valid_dirs) ==
    IF Len(display_names) = 0 THEN <<>>
    ELSE LET dir_name == ReplaceSpaces(Lower(display_names[1]))
         IN  (IF dir_name \in valid_dirs THEN << dir_name >> ELSE <<>>)
             \o FilterDirs(Tail(display_names), valid_dirs)

extract_related_skills(body, valid_dirs) ==
    LET start == SectionStart(body, 1)
    IN  IF start = 0 THEN ""
        ELSE Join(FilterDirs(FindBold(SectionText(body, start), 1), valid_dirs), ", ")

----------------------------------------------------------------------------
(* add_related_skills_to_frontmatter                                       *)

\* As InsertAfterOutputFormat, but the new line goes before the
\* output-format line.
RECURSIVE InsertBeforeOutputFormat(_, _, _, _)
InsertBeforeOutputFormat(lines, i, inserted, new_line) ==
    IF i > Len(lines) THEN [lines |-> <<>>, inserted |-> inserted]
    ELSE LET hit  == ~inserted /\ StartsWith(Strip(lines[i]), "output-format:")
             rest == InsertBeforeOutputFormat(lines, i + 1, inserted \/ hit, new_line)
         IN  [lines |-> (IF hit THEN << new_line >> ELSE <<>>) \o << lines[i] >> \o rest.lines,
              inserted |-> rest.inserted]

\* Lines 274-279: copy the lines, adding the new one after the first line
\* that starts with "output-format:" once stripped.
RECURSIVE InsertAfterOutputFormat(_, _, _, _)
InsertAfterOutputFormat(lines, i, inserted, new_line) ==
    IF i > Len(lines) THEN [lines |-> <<>>, inserted |-> inserted]
    ELSE LET hit  == ~inserted /\ StartsWith(Strip(lines[i]), "output-format:")
             rest == InsertAfterOutputFormat(lines, i + 1, inserted \/ hit, new_line)
         IN  [lines |-> << lines[i] >> \o (IF hit THEN << new_line >> ELSE <<>>) \o rest.lines,
              inserted |-> rest.inserted]

\* Lines 284-288: the last line that starts with two spaces and has a colon,
\* 0 when there is none.
RECURSIVE LastMetadataLine(_, _)
LastMetadataLine(new_lines, i) ==
    IF i < 1 THEN 0
    ELSE IF StartsWith(new_lines[i], "  ") /\ Contains(new_lines[i], ":") THEN i
    ELSE LastMetadataLine(new_lines, i - 1)

\* Lines 282-288: new_line goes after line k of new_lines (nowhere when k
\* is 0).
InsertAfterLine(new_lines, k, new_line) ==
    IF k = 0 THEN new_lines
    ELSE SubSeq(new_lines, 1, k) \o << new_line >> \o SubSeq(new_lines, k + 1, Len(new_lines))

\* Lines 281-288: what is done with the outcome of the first loop.
AfterFirstLoop(pass1, new_line) ==
    IF pass1.inserted THEN pass1.lines
    ELSE InsertAfterLine(pass1.lines, LastMetadataLine(pass1.lines, Len(pass1.lines)), new_line)

\* Lines 270-288: the header lines with new_line added.
SpliceLine(lines, new_line) ==
    AfterFirstLoop(InsertAfterOutputFormat(lines, 1, FALSE, new_line), new_line)

\* As add_related_skills_to_frontmatter, without the test of line 267.
add_related_skills_unchecked(content, related_skills) ==
    LET parts == SplitMax(content, "---", 2)
    IN  IF Len(parts) < 3 THEN content
        ELSE "---" \o Join(SpliceLine(Split(parts[2], "\n"),
                                      "  related-skills: " \o related_skills), "\n")
             \o "---" \o parts[3]

add_related_skills_to_frontmatter(content, related_skills) ==
    LET parts == SplitMax(content, "---", 2)
    IN  IF Len(parts) < 3 THEN content
        ELSE IF Contains(parts[2], "  related-skills:") THEN content
        ELSE "---" \o Join(SpliceLine(Split(parts[2], "\n"),
                                      "  related-skills: " \o related_skills), "\n")
             \o "---" \o parts[3]

----------------------------------------------------------------------------
(* migrate_skill, migrate_related_skills                                   *)

\* A SKILL.md path: whether it exists and what read_text() returns.
NoFile == [exists |-> FALSE, text |-> ""]

File(text) == [exists |-> TRUE, text |-> text]

\* What one call returns or does: raised (an exception leaves the call),
\* else (ok, msg) and, when write, skill_md.write_text(new_content).
Returned(ok, msg) ==
    [raised |-> FALSE, ok |-> ok, msg |-> msg, write |-> FALSE, new_content |-> ""]

Raised == [raised |-> TRUE, ok |-> FALSE, msg |-> "", write |-> FALSE, new_content |-> ""]

Wrote(msg, new_content) ==
    [raised |-> FALSE, ok |-> TRUE, msg |-> msg, write |-> TRUE, new_content |-> new_content]

\* "k in fm" for what parse_frontmatter returned: a key of the dict, or, when
\* the YAML document was a str or a list, a substring or an element.
InFm(r, k) == IF r.doc = "dict" THEN k \in DOMAIN r.fm ELSE InValue(k, r.top)

\* As FirstMissing, with the fields tried in the opposite order.
LastMissing(r) ==
    IF ~InFm(r, "triggers") THEN "triggers"
    ELSE IF ~InFm(r, "description") THEN "description"
    ELSE IF ~InFm(r, "name") THEN "name"
    ELSE ""

\* Lines 356-358: the first of name, description, triggers not in fm, ""
\* when all are.
FirstMissing(r) ==
    IF ~InFm(r, "name") THEN "name"
    ELSE IF ~InFm(r, "description") THEN "description"
    ELSE IF ~InFm(r, "triggers") THEN "triggers"
    ELSE ""

\* As WriteMigrated, without the test of --dry-run at line 364.
WriteMigratedAlways(skill_name, dry_run, new_content, raised) ==
    IF raised THEN Raised
    ELSE Wrote(skill_name \o ": Migrated", new_content)

\* Lines 360-372: the new content is built (which may raise) and, unless
\* --dry-run, written.
WriteMigrated(skill_name, dry_run, new_content, raised) ==
    IF raised THEN Raised
    ELSE IF dry_run THEN Returned(TRUE, skill_name \o ": Would migrate (dry-run)")
    ELSE Wrote(skill_name \o ": Migrated", new_content)

\* Line 361: new_frontmatter + body.
NewContent(b, body) == b.text \o body

\* Lines 356-358: the failure for the first required field fm lacks
\* (missing), if any.
RequireFields(skill_name, dry_run, r, missing) ==
    IF missing # ""
    THEN Returned(FALSE, skill_name \o ": Missing required field '" \o missing \o "'")
    ELSE IF r.doc = "other" THEN Raised
    ELSE WriteMigrated(skill_name, dry_run,
                       NewContent(build_new_frontmatter(r.fm, skill_name), r.body),
                       build_new_frontmatter(r.fm, skill_name).raised)

\* Lines 346-372: migrate_skill once the file has been parsed as r.
MigrateParsed(skill_name, dry_run, r) ==
    IF r.raised THEN Raised
    ELSE IF r.none THEN Returned(FALSE, skill_name \o ": No valid frontmatter found")
    ELSE IF r.doc = "other" /\ r.top.kind \notin {"str", "list"} THEN Raised
    ELSE IF InFm(r, "metadata")
    THEN Returned(TRUE, skill_name \o ": Already migrated (skipped)")
    ELSE RequireFields(skill_name, dry_run, r, FirstMissing(r))

migrate_skill(skill_name, file, dry_run, has_pyyaml) ==
    IF ~file.exists THEN Returned(FALSE, skill_name \o ": SKILL.md not found")
    ELSE MigrateParsed(skill_name, dry_run, parse_frontmatter(file.text, has_pyyaml))

\* Lines 310-331: migrate_related_skills once content has been parsed as r.
RelatedParsed(skill_name, content, valid_dirs, dry_run, r) ==
    IF r.raised THEN Raised
    ELSE IF r.none THEN Returned(FALSE, skill_name \o ": No valid frontmatter found")
    ELSE IF r.doc = "other" THEN Raised
    ELSE IF /\ "metadata" \in DOMAIN r.fm
            /\ r.fm["metadata"].kind = "dict"
            /\ \E i \in DOMAIN r.fm["metadata"].items :
                   r.fm["metadata"].items[i].s = "related-skills"
    THEN Returned(TRUE, skill_name \o ": Already has related-skills (skipped)")
    ELSE IF dry_run
    THEN Returned(TRUE, skill_name \o ": Would add related-skills (dry-run)")
    ELSE Wrote(skill_name \o ": Added related-skills",
               add_related_skills_to_frontmatter(
                   content, extract_related_skills(r.body, valid_dirs)))

migrate_related_skills(skill_name, file, valid_dirs, dry_run, has_pyyaml) ==
    IF ~file.exists THEN Returned(FALSE, skill_name \o ": SKILL.md not found")
    ELSE RelatedParsed(skill_name, file.text, valid_dirs, dry_run,
                       parse_frontmatter(file.text, has_pyyaml))

----------------------------------------------------------------------------
(* Ordering of directory names, for sorted()                               *)

\* The characters of the names, in code point order.
CharOrder == "-.0123456789ABCDEFGHIJKLMNOPQRSTUVWXYZ_abcdefghijklmnopqrstuvwxyz"

Ord(c) == Find(CharOrder, c, 1)

\* a < b for str
StrLess(a, b) ==
    \E k \in 1..(Len(a) + 1) :
        /\ \A j \in 1..(k - 1) : j <= Len(b) /\ SubSeq(a, j, j) = SubSeq(b, j, j)
        /\ k <= Len(b)
        /\ (k = Len(a) + 1 \/ Ord(SubSeq(a, k, k)) < Ord(SubSeq(b, k, k)))

\* sorted(names)
RECURSIVE Sorted(_)
Sorted(names) ==
    IF names = {} THEN <<>>
    ELSE LET least == CHOOSE n \in names : \A m \in names \ {n} : StrLess(n, m)
         IN  << least >> \o Sorted(names \ {least})

----------------------------------------------------------------------------
(* The skills/ tree the runs work on                                       *)

\* Entries of skills/ (all directories); the dot entry is one that main's
\* listing leaves out.
DirNames == {"cpp-pro", "php-pro", ".cache"}

BodyRelated == "\n\n# T\n\n## Related Skills\n\n- **Php Pro** - x\n- **No Pe**\n\n---\nend\n"

\* An unmigrated document with every optional field but allowed-tools.
DocStd(name) ==
    "---\nname: " \o name \o "\ndescription: d e\ntriggers:\n  - t u\n  - v\n"
    \o "role: r\nscope: s\noutput-format: code\n---" \o BodyRelated

\* A quoted description, inline triggers, no output-format.
DocQuoted ==
    "---\nname: php-pro\ndescription: \"Use when: x\"\nallowed-tools: Read, Grep\n"
    \o "triggers: a, b\n---\n\n# P\n"

\* A trigger that YAML needs quoted.
DocColon == "---\nname: cpp-pro\ndescription: d\ntriggers:\n  - \"p: q\"\n---\n\n# C\n"

\* A description with an unquoted ": ", which is not valid YAML.
DocBadYaml == "---\nname: cpp-pro\ndescription: Use when: x\ntriggers:\n  - t\n---\n\n# B\n"

\* Neither description nor triggers.
DocMissing == "---\nname: cpp-pro\n---\n\n# M\n"

DocNoFrontmatter == "# N\n\nno header\n"

FirstDocs == {File(DocStd("cpp-pro")), File(DocColon), File(DocBadYaml), File(DocMissing), NoFile}

SecondDocs == {File(DocStd("php-pro")), File(DocQuoted), File(DocNoFrontmatter)}

\* An unmigrated document with inline triggers and no optional field.
DocPlain == "---\nname: skipped-x\ndescription: d\ntriggers: t\n---\n\n# S\n"

ThirdDocs == {File(DocPlain)}

\* A skills/ with one more entry, whose name has the word the tally looks
\* for in the messages.
TallyDirNames == DirNames \cup {"skipped-x"}

\* Number of invocations of the script in one behaviour.
MaxRuns == 2

\* Command lines: --dry-run, --skill (absent is ""), --related-skills.
ArgsSet == [dry_run : BOOLEAN, skill : {"", "php-pro", "no-such-skill"},
            related_skills : BOOLEAN]

NoArgs == [dry_run |-> FALSE, skill |-> "", related_skills |-> FALSE]

----------------------------------------------------------------------------
(* main                                                                    *)

VARIABLES
    skills_root,    \* SKILLS_DIR.exists()
    files,          \* skills/<name>/SKILL.md for each entry
    HAS_PYYAML,     \* whether "import yaml" succeeded
    args,           \* the parsed command line of the current run
    pc,             \* "idle" before the first run, "loop" in a for loop, "exited"
    ended,          \* how the last run ended: finished, fatal, raised, killed
    skill_dirs,     \* the list the loop iterates over
    idx,            \* position of the loop in skill_dirs
    success_count, skip_count, fail_count,
    exit_status,    \* of the last run that exited
    results,        \* (ok, msg) of each call of the current run, in order
    run,            \* number of runs started
    start_files,    \* files when the current run started
    prev,           \* args, ended, results and start_files of the run before
    call, ret       \* a single function call and its result (FnSpec)

vars == << skills_root, files, HAS_PYYAML, args, pc, ended, skill_dirs, idx,
           success_count, skip_count, fail_count, exit_status, results, run,
           start_files, prev, call, ret >>

mainVars == << skills_root, files, HAS_PYYAML, args, pc, ended, skill_dirs, idx,
               success_count, skip_count, fail_count, exit_status, results, run,
               start_files, prev >>

NoCall == [op |-> "none"]

NoRun == [args |-> NoArgs, ended |-> "none", results |-> <<>>, start_files |-> <<>>]

\* Lines 400-402 and 411-415: the entries that are directories and do not
\* start with a dot.
ListedDirs == IF skills_root THEN {d \in DOMAIN files : ~StartsWith(d, ".")} ELSE {}

Init ==
    /\ skills_root \in BOOLEAN
    /\ HAS_PYYAML \in BOOLEAN
    /\ files \in [DirNames -> FirstDocs \cup SecondDocs \cup {File("x\n")}]
    /\ IF skills_root
       THEN /\ files["cpp-pro"] \in FirstDocs
            /\ files["php-pro"] \in SecondDocs
            /\ files[".cache"] = File("x\n")
       ELSE \A d \in DirNames : files[d] = NoFile
    /\ args = NoArgs
    /\ pc = "idle"
    /\ ended = "none"
    /\ skill_dirs = <<>>
    /\ idx = 1
    /\ success_count = 0 /\ skip_count = 0 /\ fail_count = 0
    /\ exit_status = 0
    /\ results = <<>>
    /\ run = 0
    /\ start_files = files
    /\ prev = NoRun
    /\ call = NoCall
    /\ ret = NoCall

\* sys.exit(1) before the loop, lines 395-397 and 406-408.
Fatal ==
    /\ pc' = "exited" /\ ended' = "fatal" /\ exit_status' = 1
    /\ skill_dirs' = <<>>

\* Lines 393-415, 419-421, 460-462: a new process parses its command line,
\* lists and sorts the directories, applies --skill and zeroes the tallies.
Start(a) ==
    /\ pc \in {"idle", "exited"}
    /\ run < MaxRuns
    /\ run' = run + 1
    /\ prev' = [args |-> args, ended |-> ended, results |-> results,
                start_files |-> start_files]
    /\ start_files' = files
    /\ args' = a
    /\ idx' = 1
    /\ success_count' = 0 /\ skip_count' = 0 /\ fail_count' = 0
    /\ results' = <<>>
    /\ LET sorted   == Sorted(ListedDirs)
           selected == IF a.skill # ""
                       THEN SelectSeq(sorted, LAMBDA d : d = a.skill)
                       ELSE sorted
       IN  IF ~skills_root THEN Fatal
           ELSE IF a.skill # "" /\ selected = <<>> THEN Fatal
           ELSE /\ pc' = "loop" /\ ended' = "none" /\ skill_dirs' = selected
                /\ UNCHANGED exit_status
    /\ UNCHANGED << skills_root, files, HAS_PYYAML, call, ret >>

\* One iteration of the loop at lines 423-436 or 464-473.  An exception
\* leaves main (nothing catches it): the interpreter prints the traceback
\* and exits with status 1.
Step ==
    /\ pc = "loop"
    /\ idx <= Len(skill_dirs)
    /\ \E d \in {skill_dirs[idx]} :
       \E res \in {IF args.related_skills
                   THEN migrate_related_skills(d, files[d], ListedDirs, args.dry_run, HAS_PYYAML)
                   ELSE migrate_skill(d, files[d], args.dry_run, HAS_PYYAML)} :
           IF res.raised
           THEN /\ pc' = "exited" /\ ended' = "raised" /\ exit_status' = 1
                /\ UNCHANGED << files, idx, success_count, skip_count, fail_count, results >>
           ELSE /\ files' = IF res.write THEN [files EXCEPT ![d] = File(res.new_content)]
                            ELSE files
                /\ success_count' = IF res.ok /\ ~Contains(res.msg, "skipped")
                                    THEN success_count + 1 ELSE success_count
                /\ skip_count' = IF res.ok /\ Contains(res.msg, "skipped")
                                 THEN skip_count + 1 ELSE skip_count
                /\ fail_count' = IF ~res.ok THEN fail_count + 1 ELSE fail_count
                /\ results' = Append(results, [dir |-> d, ok |-> res.ok, msg |-> res.msg])
                /\ idx' = idx + 1
                /\ UNCHANGED << pc, ended, exit_status >>
    /\ UNCHANGED << skills_root, HAS_PYYAML, args, skill_dirs, run, start_files, prev,
                    call, ret >>

\* Lines 438-447 and 475-484: the summary, then sys.exit(1) if anything
\* failed, else a normal return.
Finish ==
    /\ pc = "loop"
    /\ idx > Len(skill_dirs)
    /\ pc' = "exited"
    /\ ended' = "finished"
    /\ exit_status' = IF fail_count > 0 THEN 1 ELSE 0
    /\ UNCHANGED << skills_root, files, HAS_PYYAML, args, skill_dirs, idx, success_count,
                    skip_count, fail_count, results, run, start_files, prev, call, ret >>

\* The process is killed from outside between two documents of a run that
\* writes (-9: ended by SIGKILL).
Kill ==
    /\ pc = "loop"
    /\ ~args.dry_run
    /\ 1 < idx /\ idx <= Len(skill_dirs)
    /\ pc' = "exited"
    /\ ended' = "killed"
    /\ exit_status' = -9
    /\ UNCHANGED << skills_root, files, HAS_PYYAML, args, skill_dirs, idx, success_count,
                    skip_count, fail_count, results, run, start_files, prev, call, ret >>

Next ==
    \/ \E a \in ArgsSet : Start(a)
    \/ Step
    \/ Finish
    \/ Kill

Spec == Init /\ [][Next]_vars

\* The same program started on the skills/ of TallyDirNames.
TallyInit ==
    /\ skills_root = TRUE
    /\ HAS_PYYAML \in BOOLEAN
    /\ files \in [TallyDirNames -> FirstDocs \cup SecondDocs \cup ThirdDocs \cup {File("x\n")}]
    /\ files["cpp-pro"] \in FirstDocs
    /\ files["php-pro"] \in SecondDocs
    /\ files["skipped-x"] \in ThirdDocs
    /\ files[".cache"] = File("x\n")
    /\ args = NoArgs
    /\ pc = "idle"
    /\ ended = "none"
    /\ skill_dirs = <<>>
    /\ idx = 1
    /\ success_count = 0 /\ skip_count = 0 /\ fail_count = 0
    /\ exit_status = 0
    /\ results = <<>>
    /\ run = 0
    /\ start_files = files
    /\ prev = NoRun
    /\ call = NoCall
    /\ ret = NoCall

TallySpec == TallyInit /\ [][Next]_vars

----------------------------------------------------------------------------
(* A whole pass, as one function of the files                              *)

\* The call the loop makes for directory d under command line a.
CallFor(a, d, fs) ==
    IF a.related_skills
    THEN migrate_related_skills(d, fs[d], ListedDirs, a.dry_run, HAS_PYYAML)
    ELSE migrate_skill(d, fs[d], a.dry_run, HAS_PYYAML)

\* The files after the loop of lines 423-436 / 464-473 has run over
\* dirs[k..] without being interrupted (it stops where a call raises).
RECURSIVE RunFrom(_, _, _, _)
RunFrom(fs, dirs, k, a) ==
    IF k > Len(dirs) THEN fs
    ELSE LET res == CallFor(a, dirs[k], fs)
         IN  IF res.raised THEN fs
             ELSE RunFrom(IF res.write THEN [fs EXCEPT ![dirs[k]] = File(res.new_content)]
                          ELSE fs, dirs, k + 1, a)

----------------------------------------------------------------------------
(* Properties of the runs                                                  *)

\* The run that has just ended was over the full set, as was the run before
\* it, which finished without --dry-run.
SecondFullRun(related) ==
    /\ run >= 2
    /\ pc = "exited"
    /\ prev.ended = "finished"
    /\ prev.args = [dry_run |-> FALSE, skill |-> "", related_skills |-> related]
    /\ args = [dry_run |-> FALSE, skill |-> "", related_skills |-> related]

MigratedBy(rs, d) == \E k \in DOMAIN rs : rs[k].dir = d /\ rs[k].msg = d \o ": Migrated"

SkippedBy(rs, d) ==
    \E k \in DOMAIN rs : rs[k].dir = d /\ rs[k].ok
                         /\ rs[k].msg = d \o ": Already migrated (skipped)"

\* C1: when Pass A has been run to the end over all documents and is run a
\* second time, the second run changes no file and reports every document
\* the first run migrated as already migrated (skipped).
C1_PassAIdempotent ==
    (SecondFullRun(FALSE) /\ ended \in {"finished", "raised"}) =>
        /\ files = start_files
        /\ \A d \in DirNames : MigratedBy(prev.results, d) => SkippedBy(results, d)

\* Number of lines of text that start with "  related-skills:".
RelatedLines(text) ==
    Cardinality({i \in 1..Len(text) :
                    /\ StartsWithAt(text, "  related-skills:", i)
                    /\ (i = 1 \/ SubSeq(text, i - 1, i - 1) = "\n")})

\* C2: when Pass B has been run to the end over all documents and is run a
\* second time, no step of the second run changes any file, and no file
\* ever holds two related-skills lines.
C2_PassBIdempotent ==
    (/\ run >= 2
     /\ prev.ended = "finished"
     /\ prev.args = [dry_run |-> FALSE, skill |-> "", related_skills |-> TRUE]
     /\ args.related_skills) =>
        /\ files = start_files
        /\ \A d \in DirNames : RelatedLines(files[d].text) <= 1

\* The second Pass B has finished, and for cpp-pro both runs took the write
\* path: the first changed the file, the second wrote the same text again.
C2_Witness ==
    /\ SecondFullRun(TRUE)
    /\ ended = "finished"
    /\ prev.start_files["cpp-pro"] # start_files["cpp-pro"]
    /\ RelatedLines(files["cpp-pro"].text) = 1
    /\ \E k \in DOMAIN results :
           results[k] = [dir |-> "cpp-pro", ok |-> TRUE, msg |-> "cpp-pro: Added related-skills"]

\* C3: in a run with --dry-run, Pass A or Pass B, the files are at every
\* moment what they were when the run started.
C3_DryRunNoWrites ==
    (run >= 1 /\ args.dry_run) => files = start_files

\* A preview of Pass A has finished in which one document would have been
\* migrated and another one failed.
C3_Witness ==
    /\ pc = "exited" /\ ended = "finished" /\ args.dry_run /\ ~args.related_skills
    /\ fail_count > 0
    /\ \E k \in DOMAIN results :
           results[k].msg = results[k].dir \o ": Would migrate (dry-run)"

\* C4: a run that is not killed attempts every selected document exactly
\* once, in sorted order, and exits with status 1 exactly when some document
\* failed.
C4_FullyAttempted ==
    (pc = "exited" /\ ended \in {"finished", "raised"}) =>
        /\ [k \in DOMAIN results |-> results[k].dir] = skill_dirs
        /\ (exit_status = 1) <=> (\E k \in DOMAIN results : ~results[k].ok)

RequiredFields == << "name", "description", "triggers" >>

\* C5: in Pass A, a document whose parsed header has no "metadata" key and
\* lacks one of name, description, triggers fails with a message naming the
\* first missing one in that order, and its file is left as it was.
C5_MissingField ==
    ~args.related_skills =>
        \A k \in DOMAIN results :
            LET d       == results[k].dir
                r       == parse_frontmatter(start_files[d].text, HAS_PYYAML)
                missing == {j \in 1..3 : RequiredFields[j] \notin DOMAIN r.fm}
            IN  (/\ start_files[d].exists /\ ~r.none /\ ~r.raised /\ r.doc = "dict"
                 /\ "metadata" \notin DOMAIN r.fm
                 /\ missing # {}) =>
                    /\ ~results[k].ok
                    /\ results[k].msg = d \o ": Missing required field '"
                                          \o RequiredFields[Min(missing)] \o "'"
                    /\ files[d] = start_files[d]

\* A Pass A run without --dry-run has reported the document that has only a
\* name as lacking its description.
C5_Witness ==
    /\ ~args.related_skills /\ ~args.dry_run /\ pc = "exited"
    /\ start_files["cpp-pro"] = File(DocMissing)
    /\ \E k \in DOMAIN results :
           results[k] = [dir |-> "cpp-pro", ok |-> FALSE,
                         msg |-> "cpp-pro: Missing required field 'description'"]

\* C6: when a pass without --dry-run is killed between two documents, the
\* documents already attempted hold what an uninterrupted run gives them and
\* the others are untouched; and when the same pass is then run again and
\* ends, every file is what one uninterrupted run from the original files
\* would have left.
C6_RerunAfterKill ==
    /\ (pc = "exited" /\ ended = "killed") =>
           \A d \in DirNames :
               files[d] = IF \E k \in 1..(idx - 1) : skill_dirs[k] = d
                          THEN RunFrom(start_files, skill_dirs, 1, args)[d]
                          ELSE start_files[d]
    /\ (/\ run >= 2 /\ pc = "exited" /\ ended \in {"finished", "raised"}
        /\ prev.ended = "killed" /\ prev.args = args) =>
           files = RunFrom(prev.start_files, skill_dirs, 1, args)

----------------------------------------------------------------------------
(* Single calls of the pure functions, on inputs drawn from bounded sets   *)

\* Header entries: scalar "key: value" lines and single-level lists.
HeaderEntries ==
    { << "name: a" >>, << "description: d e" >>, << "description: \"k: v\"" >>,
      << "role: r" >>,
      << "triggers:", "  - t u", "  - v" >>,
      << "triggers:", "    - w" >>,
      << "triggers:", " - z" >> }

EntryKey(entry) == Partition(entry[1], ":")[1]

\* Largest number of entries in a generated header.
MaxHeaderEntries == 2

RECURSIVE Flatten(_)
Flatten(seqs) == IF Len(seqs) = 0 THEN <<>> ELSE seqs[1] \o Flatten(Tail(seqs))

HeaderShapes ==
    { es \in UNION { [1..n -> HeaderEntries] : n \in 1..MaxHeaderEntries } :
        \A i, j \in DOMAIN es : i # j => EntryKey(es[i]) # EntryKey(es[j]) }

HeaderDoc(es) == "---\n" \o Join(Flatten(es), "\n") \o "\n---\n\n# B\n"

ParseCalls == { [op |-> "parse", content |-> HeaderDoc(es)] : es \in HeaderShapes }

\* The characters the quoting rule names: colon, hash, braces, brackets,
\* pipe, angle bracket, ampersand, asterisk, bang, percent, at-sign, backtick.
QuotedChars == {":", "#", "{", "}", "[", "]", "|", ">", "&", "*", "!", "%", "@", Backtick}

\* Characters tried in descriptions: those and other punctuation.
DescChars ==
    QuotedChars
    \cup { "<", ",", ".", "-", "'", "\"", "(", ")", "?", "/", "$", "^", "~", "+", "=",
           ";", "_", " ", "x" }

Descriptions == { pre \o c \o post : pre \in {"", "a"}, c \in DescChars, post \in {"", "b"} }

BuildCalls ==
    { [op |-> "build", skill_name |-> n,
       fm |-> DictSet(DictSet(DictSet(EmptyDict, "name", StrVal(n)),
                              "description", StrVal(d)),
                      "triggers", ListVal(<< Scalar("str", "t u"), Scalar("str", "v") >>))] :
      n \in {"sql-pro"}, d \in Descriptions }

BodyFrags ==
    { "# T\n", "## Related Skills\n", "\n", "- **Php Pro** x\n",
      "**No Pe** and **Cpp Pro**\n", "## Other\n", "**Php Pro**\n" }

\* Largest number of fragments in a generated body.
MaxBodyFrags == 3

\* Bodies with at most one Related Skills heading.
Bodies ==
    { Join(fs, "") :
        fs \in { f \in UNION { [1..n -> BodyFrags] : n \in 0..MaxBodyFrags } :
                    \A i, j \in DOMAIN f : (f[i] = Heading \o "\n" /\ f[j] = f[i]) => i = j } }

ExtractCalls ==
    { [op |-> "extract", body |-> b, valid_dirs |-> {"php-pro", "cpp-pro"}] : b \in Bodies }

\* Parsed headers that have an output-format, as Pass A gets them.
SpliceFms ==
    { LET base == DictSet(DictSet(DictSet(DictSet(EmptyDict, "name", StrVal("php-pro")),
                                          "description", StrVal(d)),
                                  "triggers", t),
                          "output-format", StrVal(o))
          f1   == IF role THEN DictSet(base, "role", StrVal("r")) ELSE base
      IN  IF tools THEN DictSet(f1, "allowed-tools", StrVal("Read, Grep")) ELSE f1 :
      d \in {"d e", "Use when: output-format: x"},
      t \in {ListVal(<< Scalar("str", "t u"), Scalar("str", "v") >>), StrVal("a, b")},
      o \in {"code", "doc"}, role \in BOOLEAN, tools \in BOOLEAN }

SpliceBodies == { "\n\n# T\n", BodyRelated, "\noutput-format: x\n---\n  k: v\n" }

SpliceCalls ==
    { [op |-> "splice", content |-> build_new_frontmatter(f, "php-pro").text \o b,
       related_skills |-> rel] :
      f \in SpliceFms, b \in SpliceBodies, rel \in {"", "php-pro", "php-pro, cpp-pro"} }

\* Header lines a document of Pass B may have, in the order they come in:
\* before Pass A (output-format at the top level) and after it (the
\* metadata group), with and without the related-skills line.
RelatedLinesPool ==
    << "name: php-pro", "description: d", "output-format: code", "metadata:",
       "  author: x", "  output-format: doc", "  related-skills: cpp-pro" >>

\* The lines of pool whose positions are in S, in order.
Subsequence(pool, S) ==
    [k \in 1..Cardinality(S) |->
        pool[CHOOSE i \in S : Cardinality({j \in S : j < i}) = k - 1]]

RelatedDocs ==
    { "---\n" \o Join(Subsequence(RelatedLinesPool, S), "\n") \o "\n---" \o BodyRelated :
        S \in (SUBSET (DOMAIN RelatedLinesPool)) \ {{}} }

RelatedCalls ==
    { [op |-> "related", content |-> c, valid_dirs |-> {"php-pro", "cpp-pro"},
       dry_run |-> dr, has_pyyaml |-> y] :
      c \in RelatedDocs, dr \in BOOLEAN, y \in BOOLEAN }

FnInit ==
    /\ skills_root = FALSE
    /\ HAS_PYYAML = FALSE
    /\ files = [d \in DirNames |-> NoFile]
    /\ args = NoArgs
    /\ pc = "idle"
    /\ ended = "none"
    /\ skill_dirs = <<>>
    /\ idx = 1
    /\ success_count = 0 /\ skip_count = 0 /\ fail_count = 0
    /\ exit_status = 0
    /\ results = <<>>
    /\ run = 0
    /\ start_files = files
    /\ prev = NoRun
    /\ call \in ParseCalls \cup BuildCalls \cup ExtractCalls \cup SpliceCalls \cup RelatedCalls
    /\ ret = NoCall

\* parse_frontmatter under both settings of HAS_PYYAML.
FnParse ==
    /\ call.op = "parse" /\ ret = NoCall
    /\ ret' = [op |-> "parse",
               fallback |-> parse_frontmatter(call.content, FALSE),
               structured |-> parse_frontmatter(call.content, TRUE)]
    /\ UNCHANGED << mainVars, call >>

FnBuild ==
    /\ call.op = "build" /\ ret = NoCall
    /\ ret' = [op |-> "build", out |-> build_new_frontmatter(call.fm, call.skill_name)]
    /\ UNCHANGED << mainVars, call >>

FnExtract ==
    /\ call.op = "extract" /\ ret = NoCall
    /\ ret' = [op |-> "extract", out |-> extract_related_skills(call.body, call.valid_dirs)]
    /\ UNCHANGED << mainVars, call >>

FnSplice ==
    /\ call.op = "splice" /\ ret = NoCall
    /\ ret' = [op |-> "splice",
               out |-> add_related_skills_to_frontmatter(call.content, call.related_skills)]
    /\ UNCHANGED << mainVars, call >>

\* migrate_related_skills on skills/php-pro/SKILL.md holding call.content.
FnRelated ==
    /\ call.op = "related" /\ ret = NoCall
    /\ ret' = [op |-> "related",
               out |-> migrate_related_skills("php-pro", File(call.content), call.valid_dirs,
                                              call.dry_run, call.has_pyyaml)]
    /\ UNCHANGED << mainVars, call >>

FnNext == FnParse \/ FnBuild \/ FnExtract \/ FnSplice \/ FnRelated

FnSpec == FnInit /\ [][FnNext]_vars

----------------------------------------------------------------------------
(* Properties of the pure functions                                        *)

\* C7: on a document whose header Pass A built and which has an
\* output-format line, the splice adds exactly one line, "  related-skills: "
\* and the value, right after the output-format line of the header, and
\* every other line of the header, of the delimiters and of the body is kept
\* in place.
C7_SpliceCorrect ==
    ret.op = "splice" =>
        LET L  == Split(call.content, "\n")
            R  == Split(ret.out, "\n")
            m  == Min({j \in 2..Len(L) : L[j] = "---"})
            ks == {j \in 2..(m - 1) : StartsWith(L[j], "  output-format:")}
        IN  /\ Cardinality(ks) = 1
            /\ Len(R) = Len(L) + 1
            /\ \A k \in ks :
                   /\ R[k + 1] = "  related-skills: " \o call.related_skills
                   /\ \A j \in 1..k : R[j] = L[j]
                   /\ \A j \in (k + 1)..Len(L) : R[j + 1] = L[j]

\* The splice ran on a header with a role, where the body has a "---" and
\* the description mentions output-format, with two related skills.
C7_Witness ==
    /\ ret.op = "splice"
    /\ call.related_skills = "php-pro, cpp-pro"
    /\ Contains(call.content, "description: \"Use when: output-format: x\"")
    /\ Contains(call.content, "\n  role: r\n")
    /\ Contains(call.content, "\n---\nend\n")
    /\ Contains(ret.out, "\n  output-format: code\n  related-skills: php-pro, cpp-pro\n---")

\* C8: on a header of scalar lines and single-level lists, the fallback
\* branch and the structured branch of parse_frontmatter return the same
\* mapping and the same body.
C8_ParsersAgree ==
    ret.op = "parse" =>
        /\ ~ret.structured.raised /\ ~ret.structured.none /\ ~ret.fallback.none
        /\ ret.fallback.fm = ret.structured.fm
        /\ ret.fallback.body = ret.structured.body

\* The identifier of a display name.
Identifier(x) == ReplaceSpaces(Lower(x))

RECURSIVE BoldRunsOfLines(_)
BoldRunsOfLines(lines) ==
    IF Len(lines) = 0 THEN <<>> ELSE FindBold(lines[1], 1) \o BoldRunsOfLines(Tail(lines))

\* The lines between the "## Related Skills" heading line and the next line
\* that starts a "## " heading (or the end of the text).
RelatedSectionLines(body) ==
    LET L  == Split(body, "\n")
        hs == {j \in 1..Len(L) : L[j] = "## Related Skills"}
        h  == Min(hs)
        es == {j \in (h + 1)..Len(L) : StartsWith(L[j], "## ")}
    IN  IF hs = {} THEN <<>>
        ELSE SubSeq(L, h + 1, IF es = {} THEN Len(L) ELSE Min(es) - 1)

\* C9: extract_related_skills returns, joined by ", ", the identifiers of the
\* bold runs of the Related Skills section that are in the valid set, in
\* order of occurrence, duplicates kept, and "" when there are none.
C9_RelatedNames ==
    ret.op = "extract" =>
        LET runs == BoldRunsOfLines(RelatedSectionLines(call.body))
            ids  == [k \in DOMAIN runs |-> Identifier(runs[k])]
        IN  ret.out = Join(SelectSeq(ids, LAMBDA x : x \in call.valid_dirs), ", ")

\* C10: the description line of the built header is the value in double
\* quotes when the value has one of the characters of the quoting rule, and
\* the bare value otherwise.
C10_QuotingLaw ==
    ret.op = "build" =>
        LET desc == call.fm["description"].s
        IN  /\ ~ret.out.raised
            /\ Split(ret.out.text, "\n")[3] =
                   IF \E i \in 1..Len(desc) : SubSeq(desc, i, i) \in QuotedChars
                   THEN "description: \"" \o desc \o "\""
                   ELSE "description: " \o desc

\* A description with a backtick has been built, in quotes.
C10_Witness ==
    /\ ret.op = "build"
    /\ call.fm["description"].s = "a" \o Backtick \o "b"
    /\ Contains(ret.out.text, "\ndescription: \"a" \o Backtick \o "b\"\n")

\* The lines of the header block of a document (between the first two
\* "---").
HeaderLinesOf(text) == Split(SplitMax(text, "---", 2)[2], "\n")

\* The header has a metadata group with a related-skills key in it.
HasMarker(text) ==
    /\ Len(SplitMax(text, "---", 2)) = 3
    /\ \E i, j \in DOMAIN HeaderLinesOf(text) :
        /\ i < j
        /\ HeaderLinesOf(text)[i] = "metadata:"
        /\ StartsWith(HeaderLinesOf(text)[j], "  related-skills:")
        /\ \A m \in (i + 1)..j : StartsWith(HeaderLinesOf(text)[m], "  ")

\* C11: for a document whose metadata group already has a related-skills
\* key, migrate_related_skills returns the already-has-related-skills
\* outcome, which the tally counts as skipped, and writes nothing, under
\* either parser.
C11_MarkerSkipped ==
    (call.op = "related" /\ ret # NoCall /\ HasMarker(call.content)) =>
        /\ ~ret.out.raised
        /\ ret.out.ok
        /\ ret.out.msg = "php-pro: Already has related-skills (skipped)"
        /\ Contains(ret.out.msg, "skipped")
        /\ ~ret.out.write

\* The same, for the calls made with PyYAML present.
C11_StructuredOnly ==
    (call.op = "related" /\ call.has_pyyaml) => C11_MarkerSkipped

\* An indented "key:" line of a header.
IsIndentedKey(line) == StartsWith(line, "  ") /\ Contains(line, ":")

\* The header of text has exactly one "  related-skills:" line, and it comes
\* right after an output-format line when the header has one, otherwise
\* right after the last other indented "key:" line.
PlacedOnce(text) ==
    /\ Len(SplitMax(text, "---", 2)) = 3
    /\ \E j \in DOMAIN HeaderLinesOf(text) :
        /\ StartsWith(HeaderLinesOf(text)[j], "  related-skills:")
        /\ \A m \in DOMAIN HeaderLinesOf(text) :
               StartsWith(HeaderLinesOf(text)[m], "  related-skills:") => m = j
        /\ j > 1
        /\ IF \E i \in DOMAIN HeaderLinesOf(text) :
                  StartsWith(Strip(HeaderLinesOf(text)[i]), "output-format:")
           THEN StartsWith(Strip(HeaderLinesOf(text)[j - 1]), "output-format:")
           ELSE /\ IsIndentedKey(HeaderLinesOf(text)[j - 1])
                /\ \A m \in (j + 1)..Len(HeaderLinesOf(text)) :
                       ~IsIndentedKey(HeaderLinesOf(text)[m])

\* C12: when migrate_related_skills, without --dry-run, returns "Added
\* related-skills", the text it wrote has exactly one "  related-skills:"
\* line in its header, after the output-format line or else after the last
\* indented "key:" line.
C12_AddedIsPlaced ==
    (/\ call.op = "related" /\ ret # NoCall /\ ~call.dry_run
     /\ ~ret.out.raised
     /\ ret.out.msg = "php-pro: Added related-skills") =>
        /\ ret.out.write
        /\ PlacedOnce(ret.out.new_content)

\* The same, for the documents that have an output-format line or an
\* indented "key:" line and do not have the related-skills line yet.
C12_WhenAnchored ==
    (/\ call.op = "related"
     /\ ~Contains(SplitMax(call.content, "---", 2)[2], "  related-skills:")
     /\ \E i \in DOMAIN HeaderLinesOf(call.content) :
            \/ IsIndentedKey(HeaderLinesOf(call.content)[i])
            \/ StartsWith(Strip(HeaderLinesOf(call.content)[i]), "output-format:"))
        => C12_AddedIsPlaced

\* The outcome of one call, read from what the call returned for its
\* directory: skipped-already-migrated, failed, or migrated (written, or
\* would be under --dry-run).
OutcomeOf(r) ==
    IF ~r.ok THEN "failed"
    ELSE IF r.msg \in {r.dir \o ": Already migrated (skipped)",
                       r.dir \o ": Already has related-skills (skipped)"}
    THEN "skipped"
    ELSE "migrated"

CountOutcome(rs, o) == Cardinality({k \in DOMAIN rs : OutcomeOf(rs[k]) = o})

\* C13: when a pass prints its summary, the skipped count is the number of
\* documents whose outcome was skipped-already-migrated, the migrated (or
\* updated) count the number that were migrated or would be, the failed
\* count the number of failures, and the three add up to the total, the
\* number of selected documents.
C13_TallyCorrect ==
    (pc = "exited" /\ ended = "finished") =>
        /\ skip_count = CountOutcome(results, "skipped")
        /\ success_count = CountOutcome(results, "migrated")
        /\ fail_count = CountOutcome(results, "failed")
        /\ success_count + skip_count + fail_count = Len(skill_dirs)

\* The same, for the documents whose directory name does not have the word
\* "skipped" in it.
C13_OtherNames ==
    (\A k \in DOMAIN results : ~Contains(results[k].dir, "skipped")) => C13_TallyCorrect

====
